---- MODULE Spec2Model ----
(***************************************************************************)
(* A model of the PwdHash Vault web server (src/pwdhash/web.py): the       *)
(* request handlers of PwdHashServer, the key table they read and write,   *)
(* the clipboard they copy to and the image-search pagination.             *)
(*                                                                         *)
(* The server runs two worker threads ('server.thread_pool': 2). No        *)
(* handler takes a lock or opens a transaction, so every call a handler    *)
(* makes on the key table or on the clipboard is a step of its own, and    *)
(* the steps of the two workers interleave freely.                         *)
(*                                                                         *)
(*   Spec      the two workers handling update requests, one after the     *)
(*             other or at the same time;                                  *)
(*   SpecSeq   the same with the requests executed one at a time: a        *)
(*             request arrives only when none is in progress;              *)
(*   SpecList  the two workers handling index, about, add and generate     *)
(*             requests, next to updates that store or delete a key;       *)
(*   SpecPick  the handler pick_image called with any query and start,     *)
(*             its batch loop one iteration per step;                      *)
(*   SpecChain the chains of calls of pick_image that begin at start = 0   *)
(*             and follow the rendered "next" link (FairChain adds the     *)
(*             fairness under which a started call is given its turn).     *)
(***************************************************************************)
EXTENDS Integers, Sequences, FiniteSets, TLC

(***************************************************************************)
(* Values                                                                  *)
(***************************************************************************)

\* Python's None, different from every string a request can carry.
None == "<None>"

\* Truth value of a request parameter (a str or None) in `if delete:` and
\* `elif name:`: None and the empty string are false.
Truthy(v) == v # None /\ v # ""

\* Key names of the model, listed in ascending (lexicographic) order.
NameOrder == <<"a", "b">>

Names == {NameOrder[i] : i \in 1..Len(NameOrder)}

NameRank(n) == CHOOSE i \in 1..Len(NameOrder) : NameOrder[i] = n

\* What a request carries as name (a form field, possibly left empty) and as
\* delete (a link parameter, possibly absent).
NameArgs == {""} \cup Names
DeleteArgs == {None} \cup Names

Domains == {"d1", "d2"}

Images == {"i1", "i2"}

\* What a request can carry in `msg`.
Msgs == {None, "hello"}

\* What a request can carry in `query`, as sequences of characters: plain
\* text; "%%%-5.3l%", whose conversions ("%%", and a "%" with flag, width,
\* precision and length) take no argument; "5%", whose "%" meets the "&"
\* that follows the query; "%d", which takes the argument; "%.2147483648%",
\* whose precision is too big; "%1000000%", padded to a million
\* characters; a unicode string holding the character U+00E9, and the
\* byte string of the two bytes that encode it.
Queries ==
    {<<"c">>,
     <<"%", "%", "%", "-", "5", ".", "3", "l", "%">>,
     <<"5", "%">>,
     <<"%", "d">>,
     <<"%", ".", "2", "1", "4", "7", "4", "8", "3", "6", "4", "8", "%">>,
     <<"%", "1", "0", "0", "0", "0", "0", "0", "%">>,
     <<"U+00E9">>,
     <<"0xC3", "0xA9">>}

\* The largest id the key table hands out: the number of rows inserted in
\* a run.
MaxId == 3

\* The worker threads of the server.
Workers == {1, 2}

VARIABLES
    \* shared by the workers
    store,        \* the rows of table Key: [id, name, domain, image]
    next_id,      \* the id the table gives the next row
    clipboard,    \* the text the system clipboard holds
    \* each worker's request
    wpc,          \* worker -> its position inside the handler
    wreq,         \* worker -> the request: [op, name, domain, image, delete, msg]
    wk,           \* worker -> id of the row its local k refers to (0: unset)
    wmsg,         \* worker -> local msg of index
    wcalls,       \* worker -> its calls to copy_to_clipboard: <<[text, ok]>>
    wresp,        \* worker -> what the request returns: [kind, target, keys, msg]
    wpath,        \* worker -> the way taken through update
    \* pick_image
    pc,           \* "idle", "loop" (inside the while), "done" (rendered), "error"
    query,        \* the query parameter of the call
    arg,          \* the start parameter of the call
    start,        \* local start
    next_start,   \* local next_start, a number until line 169
    prev_start,   \* local prev_start: <<>> is None, <<n>> is n
    img_urls,     \* local img_urls
    upstream,     \* offsets of the image-search requests of this call
    tmpl_next,    \* next_start as rendered: <<>> is None, <<n>> is n
    linked,       \* the call is start=0 or was reached from it by "next" links
    chain         \* offsets of the image-search requests of the whole chain

sharedVars == <<store, next_id, clipboard>>

workerVars == <<wpc, wreq, wk, wmsg, wcalls, wresp, wpath>>

vaultVars == <<sharedVars, workerVars>>

pickVars == <<pc, query, arg, start, next_start, prev_start, img_urls, upstream,
              tmpl_next, linked, chain>>

vars == <<vaultVars, pickVars>>


(***************************************************************************)
(* The key table (pwdhash.db.Key, an SQLObject class) as the handlers use  *)
(* it: byName, the constructor, attribute assignment, delete, and          *)
(* select().orderBy('name').                                               *)
(***************************************************************************)

Row(id, name, domain, image) ==
    [id |-> id, name |-> name, domain |-> domain, image |-> image]

RowsNamed(s, n) == {r \in s : r.name = n}

\* Key.byName (n) raises SQLObjectNotFound exactly when this is FALSE.
Found(s, n) == RowsNamed(s, n) # {}

\* Key.byName (n), when it does not raise: the row of that name (the one
\* of the lowest id, should the table hold several).
Key_byName(s, n) ==
    CHOOSE r \in RowsNamed(s, n) : \A q \in RowsNamed(s, n) : r.id <= q.id

\* Key (name=, domain=, image=): the outcomes of the INSERT, each
\* [store, id, raised]. The table numbers its rows: the new row gets the id
\* nid, which no row had before. When a row of that name is already there,
\* a table that keeps the name unique rejects the second one: the call
\* raises and nothing is stored. The declaration of the table is not among
\* the sources, and update is written to look the name up before it
\* inserts, so the outcome of a table that takes the second row is admitted
\* next to it. No property below is refuted by that outcome alone.
Key_new(s, nid, name, domain, image) ==
    (IF nid > MaxId THEN {}
     ELSE {[store |-> s \cup {Row(nid, name, domain, image)},
            id |-> nid, raised |-> FALSE]})
    \cup (IF Found(s, name) THEN {[store |-> s, id |-> 0, raised |-> TRUE]} ELSE {})

\* k.domain = v : an UPDATE of the row whose id is k.id.
Key_setDomain(s, id, v) ==
    {IF r.id = id THEN [r EXCEPT !.domain = v] ELSE r : r \in s}

\* k.image = v
Key_setImage(s, id, v) ==
    {IF r.id = id THEN [r EXCEPT !.image = v] ELSE r : r \in s}

\* Key.delete (id)
Key_delete(s, id) == {r \in s : r.id # id}

\* ORDER BY name (rows of one name in id order).
RowLe(r, q) ==
    \/ NameRank(r.name) < NameRank(q.name)
    \/ r.name = q.name /\ r.id <= q.id

RECURSIVE orderByName(_)
orderByName(rows) ==
    IF rows = {} THEN <<>>
    ELSE LET m == CHOOSE r \in rows : \A q \in rows : RowLe(r, q)
         IN  <<m>> \o orderByName(rows \ {m})

\* A select with no ORDER BY: the rows in id order.
RECURSIVE orderById(_)
orderById(rows) ==
    IF rows = {} THEN <<>>
    ELSE LET m == CHOOSE r \in rows : \A q \in rows : r.id <= q.id
         IN  <<m>> \o orderById(rows \ {m})

(***************************************************************************)
(* The collaborators: pwdhash.platform.copy_to_clipboard and the PwdHash   *)
(* generator.                                                              *)
(***************************************************************************)

\* The clipboard after copy_to_clipboard (text) returned ok.
copy_to_clipboard(clip, text, ok) == IF ok THEN text ELSE clip

\* pwd_gen.generate (domain): the password of a domain.
pwd_gen(domain) == IF domain = "d1" THEN "pw-d1" ELSE "pw-d2"

(***************************************************************************)
(* Requests and responses                                                  *)
(***************************************************************************)

Request(op, name, domain, image, delete, msg) ==
    [op |-> op, name |-> name, domain |-> domain, image |-> image,
     delete |-> delete, msg |-> msg]

NoRequest == Request("none", None, None, None, None, None)

Page(target, keys, msg) ==
    [kind |-> "page", target |-> target, keys |-> keys, msg |-> msg]

\* raise cherrypy.HTTPRedirect (target)
Redirect(target) ==
    [kind |-> "redirect", target |-> target, keys |-> <<>>, msg |-> None]

\* An exception the handler does not catch: the server's error page.
ServerError ==
    [kind |-> "error", target |-> "500", keys |-> <<>>, msg |-> None]

NoResponse ==
    [kind |-> "none", target |-> "", keys |-> <<>>, msg |-> None]

(***************************************************************************)
(* What the handlers compute                                               *)
(***************************************************************************)

index_clears_always(msg) == TRUE

\* index: `if msg is None:` - the clipboard is cleaned if there is no msg.
index_clears(msg) == msg = None

\* Where index goes first: to the copy of "***", or past it.
index_entry(msg) == IF index_clears(msg) THEN "index_copy" ELSE "index_select"

index_keys_unordered(s) == orderById(s)

\* index: keys = Key.select ( ).orderBy ('name')
index_keys(s) == orderByName(s)

\* index: tmpl.render (keys=keys, msg=msg)
index_page(s, msg) == Page("index.html", index_keys(s), msg)

generate_msg_swapped(generated, copied) ==
    IF copied THEN generated ELSE "Password ready"

\* generate: the message handed to index.
generate_msg(generated, copied) ==
    IF copied THEN "Password ready" ELSE generated

update_branch_nameFirst(name, delete) ==
    IF Truthy(name) THEN "upsert_byName"
    ELSE IF Truthy(delete) THEN "delete_byName"
    ELSE "redirect"

\* update: `if delete:` ... `elif name:` ... and else straight to the redirect.
update_branch(name, delete) ==
    IF Truthy(delete) THEN "delete_byName"
    ELSE IF Truthy(name) THEN "upsert_byName"
    ELSE "redirect"

update_delete_except_none(r) == ServerError

\* update, delete branch: `except SQLObjectNotFound: pass` - the request r
\* goes on to the redirect.
update_delete_except(r) == Redirect("/")

update_lookup_never(s, n) == 0

\* update: try: k = Key.byName (n) except SQLObjectNotFound - the id of
\* the row found, 0 when the except clause is entered.
update_lookup(s, n) == IF Found(s, n) THEN Key_byName(s, n).id ELSE 0

\* The first position of a handler on request r. A generate request without
\* the domain parameter raises KeyError at kwargs['domain'].
entry(r) ==
    CASE r.op = "index" -> index_entry(r.msg)
      [] r.op = "generate" -> IF r.domain = None THEN "raise" ELSE "generate_copy"
      [] r.op = "update" -> update_branch(r.name, r.delete)
      [] OTHER -> "render"

IndexRequests == {Request("index", None, None, None, None, m) : m \in Msgs}

GenerateRequests ==
    {Request("generate", None, d, None, None, None) : d \in Domains \cup {None}}

\* The domain and image a form is filled in with (pairs of Domains and
\* Images).
Entries == {<<"d1", "i1">>, <<"d2", "i2">>}

UpdateRequests ==
    {Request("update", n, e[1], e[2], del, None) :
        n \in NameArgs, e \in Entries, del \in DeleteArgs}

\* The updates that run next to the listing: a key is stored or deleted.
ListUpdateRequests ==
    {Request("update", "a", "d1", "i1", None, None),
     Request("update", "b", "d1", "i1", None, None),
     Request("update", None, "d1", "i1", "a", None)}

(***************************************************************************)
(* The steps of a worker                                                   *)
(***************************************************************************)

Busy(w) == wpc[w] # "idle"

\* A worker that is free takes the request r and enters its handler.
w_begin(w, r) ==
    /\ ~Busy(w)
    /\ wreq' = [wreq EXCEPT ![w] = r]
    /\ wpc' = [wpc EXCEPT ![w] = entry(r)]
    /\ wk' = [wk EXCEPT ![w] = 0]
    /\ wmsg' = [wmsg EXCEPT ![w] = r.msg]
    /\ wcalls' = [wcalls EXCEPT ![w] = <<>>]
    /\ wresp' = [wresp EXCEPT ![w] = NoResponse]
    /\ wpath' = [wpath EXCEPT ![w] = ""]
    /\ UNCHANGED <<store, clipboard, next_id>>

\* The handler ends with response x.
Return(w, x) ==
    /\ wresp' = [wresp EXCEPT ![w] = x]
    /\ wpc' = [wpc EXCEPT ![w] = "return"]

\* The response is sent and the worker is free again; the locals are gone.
w_return(w) ==
    /\ wpc[w] = "return"
    /\ wpc' = [wpc EXCEPT ![w] = "idle"]
    /\ wreq' = [wreq EXCEPT ![w] = NoRequest]
    /\ wk' = [wk EXCEPT ![w] = 0]
    /\ wmsg' = [wmsg EXCEPT ![w] = None]
    /\ wcalls' = [wcalls EXCEPT ![w] = <<>>]
    /\ wresp' = [wresp EXCEPT ![w] = NoResponse]
    /\ wpath' = [wpath EXCEPT ![w] = ""]
    /\ UNCHANGED <<store, clipboard, next_id>>

\* about, add: tmpl.render ( )
w_render(w) ==
    /\ wpc[w] = "render"
    /\ Return(w, Page(IF wreq[w].op = "about" THEN "about.html" ELSE "add.html",
                      <<>>, None))
    /\ UNCHANGED <<store, clipboard, wreq, wk, wmsg, wcalls, wpath, next_id>>

\* An exception nothing catches: the request ends in the error page.
w_raise(w) ==
    /\ wpc[w] = "raise"
    /\ Return(w, ServerError)
    /\ UNCHANGED <<store, clipboard, wreq, wk, wmsg, wcalls, wpath, next_id>>

\* generate: generated = pwd_gen.generate (domain); copied_to_clipboard =
\* copy_to_clipboard (generated); msg is chosen; index (msg) is entered.
w_generate_copy(w) ==
    /\ wpc[w] = "generate_copy"
    /\ \E copied \in BOOLEAN :
          LET generated == pwd_gen(wreq[w].domain)
              msg == generate_msg(generated, copied)
          IN  /\ clipboard' = copy_to_clipboard(clipboard, generated, copied)
              /\ wcalls' = [wcalls EXCEPT ![w] =
                               Append(@, [text |-> generated, ok |-> copied])]
              /\ wmsg' = [wmsg EXCEPT ![w] = msg]
              /\ wpc' = [wpc EXCEPT ![w] = index_entry(msg)]
    /\ UNCHANGED <<store, wreq, wk, wresp, wpath, next_id>>

\* index: copy_to_clipboard ("***"); what it returns is not looked at.
w_index_copy(w) ==
    /\ wpc[w] = "index_copy"
    /\ \E ok \in BOOLEAN :
          /\ clipboard' = copy_to_clipboard(clipboard, "***", ok)
          /\ wcalls' = [wcalls EXCEPT ![w] = Append(@, [text |-> "***", ok |-> ok])]
    /\ wpc' = [wpc EXCEPT ![w] = "index_select"]
    /\ UNCHANGED <<store, wreq, wk, wmsg, wresp, wpath, next_id>>

\* index: the keys are selected and the page is rendered with them.
w_index_select(w) ==
    /\ wpc[w] = "index_select"
    /\ Return(w, index_page(store, wmsg[w]))
    /\ UNCHANGED <<store, clipboard, wreq, wk, wmsg, wcalls, wpath, next_id>>

\* update, delete branch: k = Key.byName (delete); SQLObjectNotFound is
\* passed over.
w_delete_byName(w) ==
    /\ wpc[w] = "delete_byName"
    /\ LET id == update_lookup(store, wreq[w].delete)
       IN  /\ wk' = [wk EXCEPT ![w] = id]
           /\ wpath' = [wpath EXCEPT ![w] =
                           IF id # 0 THEN "delete-found" ELSE "delete-notfound"]
           /\ IF id # 0
              THEN wpc' = [wpc EXCEPT ![w] = "delete"] /\ UNCHANGED wresp
              ELSE Return(w, update_delete_except(wreq[w]))
    /\ UNCHANGED <<store, clipboard, wreq, wmsg, wcalls, next_id>>

\* update, delete branch: Key.delete (k.id), inside the same try: a row
\* that is gone by now makes it raise SQLObjectNotFound, which is passed over.
w_delete(w) ==
    /\ wpc[w] = "delete"
    /\ store' = Key_delete(store, wk[w])
    /\ IF \E r \in store : r.id = wk[w]
       THEN Return(w, Redirect("/"))
       ELSE Return(w, update_delete_except(wreq[w]))
    /\ UNCHANGED <<clipboard, wreq, wk, wmsg, wcalls, wpath, next_id>>

\* update, upsert branch: k = Key.byName (name), or the except clause is
\* entered.
w_upsert_byName(w) ==
    /\ wpc[w] = "upsert_byName"
    /\ LET id == update_lookup(store, wreq[w].name)
       IN  /\ wk' = [wk EXCEPT ![w] = id]
           /\ wpc' = [wpc EXCEPT ![w] = IF id # 0 THEN "set_domain" ELSE "insert"]
           /\ wpath' = [wpath EXCEPT ![w] =
                           IF id # 0 THEN "upsert-found" ELSE "upsert-new"]
    /\ UNCHANGED <<store, clipboard, wreq, wmsg, wcalls, wresp, next_id>>

\* update, upsert branch: k = Key (name=name, domain=domain, image=image);
\* an exception it raises is caught nowhere and ends the request.
w_insert(w) ==
    /\ wpc[w] = "insert"
    /\ \E o \in Key_new(store, next_id, wreq[w].name, wreq[w].domain, wreq[w].image) :
          IF o.raised
          THEN /\ Return(w, ServerError)
               /\ UNCHANGED <<store, next_id, wk>>
          ELSE /\ store' = o.store
               /\ next_id' = next_id + 1
               /\ wk' = [wk EXCEPT ![w] = o.id]
               /\ wpc' = [wpc EXCEPT ![w] = "set_domain"]
               /\ UNCHANGED wresp
    /\ UNCHANGED <<clipboard, wreq, wmsg, wcalls, wpath>>

\* update, upsert branch: k.domain = domain
w_set_domain(w) ==
    /\ wpc[w] = "set_domain"
    /\ store' = Key_setDomain(store, wk[w], wreq[w].domain)
    /\ wpc' = [wpc EXCEPT ![w] = "set_image"]
    /\ UNCHANGED <<clipboard, wreq, wk, wmsg, wcalls, wresp, wpath, next_id>>

\* update, upsert branch: k.image = image
w_set_image(w) ==
    /\ wpc[w] = "set_image"
    /\ store' = Key_setImage(store, wk[w], wreq[w].image)
    /\ Return(w, Redirect("/"))
    /\ UNCHANGED <<clipboard, wreq, wk, wmsg, wcalls, wpath, next_id>>

\* update with neither branch taken: raise cherrypy.HTTPRedirect ("/").
\* (The branches end with the same raise, as part of their last step.)
w_redirect(w) ==
    /\ wpc[w] = "redirect"
    /\ Return(w, Redirect("/"))
    /\ UNCHANGED <<store, clipboard, wreq, wk, wmsg, wcalls, wpath, next_id>>

(***************************************************************************)
(* The server                                                              *)
(***************************************************************************)

InitVault ==
    /\ store = {}
    /\ next_id = 1
    /\ clipboard = ""
    /\ wpc = [w \in Workers |-> "idle"]
    /\ wreq = [w \in Workers |-> NoRequest]
    /\ wk = [w \in Workers |-> 0]
    /\ wmsg = [w \in Workers |-> None]
    /\ wcalls = [w \in Workers |-> <<>>]
    /\ wresp = [w \in Workers |-> NoResponse]
    /\ wpath = [w \in Workers |-> ""]

InitPick ==
    /\ pc = "idle"
    /\ query = <<"c">>
    /\ arg = 0
    /\ start = 0
    /\ next_start = 0
    /\ prev_start = <<>>
    /\ img_urls = <<>>
    /\ upstream = <<>>
    /\ tmpl_next = <<>>
    /\ linked = FALSE
    /\ chain = <<>>

Init == InitVault /\ InitPick

\* A request arrives at a free worker.
Index ==
    (\E w \in Workers, r \in IndexRequests : w_begin(w, r)) /\ UNCHANGED pickVars

About ==
    (\E w \in Workers : w_begin(w, Request("about", None, None, None, None, None)))
    /\ UNCHANGED pickVars

Add ==
    (\E w \in Workers : w_begin(w, Request("add", None, None, None, None, None)))
    /\ UNCHANGED pickVars

Generate ==
    (\E w \in Workers, r \in GenerateRequests : w_begin(w, r)) /\ UNCHANGED pickVars

Update ==
    (\E w \in Workers, r \in UpdateRequests : w_begin(w, r)) /\ UNCHANGED pickVars

ListUpdate ==
    (\E w \in Workers, r \in ListUpdateRequests : w_begin(w, r)) /\ UNCHANGED pickVars

\* A worker takes the next step of its handler.
Render == (\E w \in Workers : w_render(w)) /\ UNCHANGED pickVars

Raise == (\E w \in Workers : w_raise(w)) /\ UNCHANGED pickVars

GenerateCopy == (\E w \in Workers : w_generate_copy(w)) /\ UNCHANGED pickVars

IndexCopy == (\E w \in Workers : w_index_copy(w)) /\ UNCHANGED pickVars

IndexSelect == (\E w \in Workers : w_index_select(w)) /\ UNCHANGED pickVars

DeleteByName == (\E w \in Workers : w_delete_byName(w)) /\ UNCHANGED pickVars

Delete == (\E w \in Workers : w_delete(w)) /\ UNCHANGED pickVars

UpsertByName == (\E w \in Workers : w_upsert_byName(w)) /\ UNCHANGED pickVars

Insert == (\E w \in Workers : w_insert(w)) /\ UNCHANGED pickVars

SetDomain == (\E w \in Workers : w_set_domain(w)) /\ UNCHANGED pickVars

SetImage == (\E w \in Workers : w_set_image(w)) /\ UNCHANGED pickVars

RedirectHome == (\E w \in Workers : w_redirect(w)) /\ UNCHANGED pickVars

ReturnResponse == (\E w \in Workers : w_return(w)) /\ UNCHANGED pickVars

UpdateSteps ==
    \/ DeleteByName \/ Delete \/ UpsertByName \/ Insert \/ SetDomain \/ SetImage
    \/ ReturnResponse

Next == Update \/ UpdateSteps \/ RedirectHome

Spec == Init /\ [][Next]_vars

\* The update requests executed one at a time: a request arrives only when
\* no other is in progress.
UpdateAlone ==
    /\ \A v \in Workers : ~Busy(v)
    /\ Update

NextSeq == UpdateAlone \/ UpdateSteps \/ RedirectHome

SpecSeq == Init /\ [][NextSeq]_vars

NextList ==
    \/ Index \/ About \/ Add \/ Generate \/ ListUpdate
    \/ Render \/ Raise \/ GenerateCopy \/ IndexCopy \/ IndexSelect
    \/ UpdateSteps

SpecList == Init /\ [][NextList]_vars

(***************************************************************************)
(* PwdHashServer.pick_image                                                *)
(***************************************************************************)

\* Google will only return a max of 56 results.
MAX_RESULTS == 56

\* Largest start parameter a request carries in the model.
MaxStart == 60

\* The most results one answer of the image search holds in the model. The
\* handler takes as many as the answer holds.
MaxAnswer == 4

\* The character at position j of the format string from the query on:
\* the query is followed by "&start=%d".
pick_char(q, j) == IF j > Len(q) THEN "&" ELSE q[j]

\* The parts of a conversion between its "%" and its conversion character.
FormatFlags == {"-", "+", " ", "#", "0"}

FormatDigits == {"0", "1", "2", "3", "4", "5", "6", "7", "8", "9"}

FormatLengths == {"h", "l", "L"}

\* The number a digit stands for.
DigitValue(c) ==
    CHOOSE n \in 0..9 : <<"0", "1", "2", "3", "4", "5", "6", "7", "8", "9">>[n + 1] = c

\* The greatest width a conversion can have, 2^63 - 1 (a Py_ssize_t), and
\* the greatest precision, 2^31 - 1 (an int), digit by digit.
PY_SSIZE_T_MAX == <<9, 2, 2, 3, 3, 7, 2, 0, 3, 6, 8, 5, 4, 7, 7, 5, 8, 0, 7>>

INT_MAX == <<2, 1, 4, 7, 4, 8, 3, 6, 4, 7>>

\* A width of no more digits than this pads the conversion to fewer than a
\* million characters, for which the memory is taken to be there.
PadDigits == 6

\* The digits ds without their leading zeros.
Significant(ds) ==
    LET nonzero == {j \in 1..Len(ds) : ds[j] # "0"}
    IN  IF nonzero = {} THEN <<>>
        ELSE SubSeq(ds, CHOOSE j \in nonzero : \A k \in nonzero : j <= k, Len(ds))

\* The number written with the digits ds is greater than the limit: "width
\* too big", "prec too big".
TooBig(ds, limit) ==
    LET s == Significant(ds)
    IN  \/ Len(s) > Len(limit)
        \/ /\ Len(s) = Len(limit)
           /\ \E j \in 1..Len(s) :
                 /\ DigitValue(s[j]) > limit[j]
                 /\ \A k \in 1..(j - 1) : DigitValue(s[k]) = limit[k]

\* BASE_URL % start, where BASE_URL holds the query as it came, with the
\* one argument start (python 2), read character by character from
\* position i on; at tells where in a conversion the reading is, num holds
\* the digits of the width or precision read so far, and padded tells that
\* a conversion before was padded to a width of more than PadDigits digits.
\* A "%" opens a conversion: a mapping key "(" (the argument is no
\* mapping), then flags, a width (digits, or "*", which takes the
\* argument), a precision ("." and digits or "*"), one length letter, and
\* the conversion character. A width greater than PY_SSIZE_T_MAX and a
\* precision greater than INT_MAX raise ValueError. The conversion "%"
\* takes no argument and gives a "%", padded to the width; any other takes
\* the argument, or is no conversion at all, and either way the formatting
\* raises, at once or at &start=%d, for which no argument is left. The
\* result: "raises", "formats", or "padded" when it formats if the memory
\* for the padding is there and raises MemoryError if not.
RECURSIVE pick_format_scan(_, _, _, _, _)
pick_format_scan(q, i, at, num, padded) ==
    LET c == pick_char(q, i)
    IN  CASE at = "text" ->
                 IF i > Len(q) THEN (IF padded THEN "padded" ELSE "formats")
                 ELSE IF c = "%" THEN pick_format_scan(q, i + 1, "key", <<>>, padded)
                 ELSE pick_format_scan(q, i + 1, "text", <<>>, padded)
          [] at = "key" ->
                 IF c = "(" THEN "raises"
                 ELSE pick_format_scan(q, i, "flags", <<>>, padded)
          [] at = "flags" ->
                 IF c \in FormatFlags THEN pick_format_scan(q, i + 1, "flags", <<>>, padded)
                 ELSE IF c = "*" THEN "raises"
                 ELSE pick_format_scan(q, i, "width", <<>>, padded)
          [] at = "width" ->
                 IF c \in FormatDigits
                 THEN pick_format_scan(q, i + 1, "width", Append(num, c), padded)
                 ELSE IF TooBig(num, PY_SSIZE_T_MAX) THEN "raises"
                 ELSE IF c = "."
                 THEN pick_format_scan(q, i + 1, "dot", <<>>,
                                       padded \/ Len(num) > PadDigits)
                 ELSE pick_format_scan(q, i, "length", <<>>,
                                       padded \/ Len(num) > PadDigits)
          [] at = "dot" ->
                 IF c = "*" THEN "raises"
                 ELSE pick_format_scan(q, i, "precision", <<>>, padded)
          [] at = "precision" ->
                 IF c \in FormatDigits
                 THEN pick_format_scan(q, i + 1, "precision", Append(num, c), padded)
                 ELSE IF TooBig(num, INT_MAX) THEN "raises"
                 ELSE pick_format_scan(q, i, "length", <<>>, padded)
          [] at = "length" ->
                 IF c \in FormatLengths
                 THEN pick_format_scan(q, i + 1, "conversion", <<>>, padded)
                 ELSE pick_format_scan(q, i, "conversion", <<>>, padded)
          [] OTHER ->
                 IF c = "%" THEN pick_format_scan(q, i + 1, "text", <<>>, padded)
                 ELSE "raises"

\* Whether BASE_URL % start raises for the query q: TRUE, FALSE, or either
\* of them where it hangs on the memory to be had.
pick_format_raises(q) ==
    LET result == pick_format_scan(q, 1, "text", <<>>, FALSE)
    IN  CASE result = "raises" -> {TRUE}
          [] result = "formats" -> {FALSE}
          [] OTHER -> BOOLEAN

pick_next_start_unclamped(s) == s + 8

\* next_start = start + 8, and MAX_RESULTS when that is greater.
pick_next_start(s) == IF s + 8 > MAX_RESULTS THEN MAX_RESULTS ELSE s + 8

\* prev_start = start - 8, and None when that is negative.
pick_prev_start(s) == IF s - 8 < 0 THEN <<>> ELSE <<s - 8>>

pick_advance_by_page(s) == s + 8

\* start += 4 : four images are taken to be delivered per image-search
\* request.
pick_advance(s) == s + 4

\* The link to the next page is disabled at the end: None for MAX_RESULTS.
pick_render_next(n) == IF n = MAX_RESULTS THEN <<>> ELSE <<n>>

\* json.loads (r.text)['responseData']['results'] of the image-search
\* request at offset o, when the answer holds n results: the results from
\* offset o on, in order.
pick_results(o, n) == [i \in 1..n |-> o + i - 1]

\* The results fetched before the fetch of result number upto (counted
\* from 0; n: all were fetched), leaving out those whose fetch raised
\* ConnectionError.
pick_fetched(o, n, reachable, upto) ==
    SelectSeq(pick_results(o, n),
              LAMBDA u : (u - o) \in reachable /\ (u - o) < upto)

\* Handler entry up to the while: a call with query q and start parameter s.
pick_begin(q, s, isLinked, ch) ==
    /\ pc' = "loop"
    /\ query' = q
    /\ arg' = s
    /\ start' = s
    /\ next_start' = pick_next_start(s)
    /\ prev_start' = pick_prev_start(s)
    /\ img_urls' = <<>>
    /\ upstream' = <<>>
    /\ tmpl_next' = <<>>
    /\ linked' = isLinked
    /\ chain' = ch

\* One iteration of `while start < next_start`. The address of the
\* image-search request is formatted, which may raise; the request is made
\* and its answer read, either of which may raise; each result the answer
\* holds is fetched, and a fetch that raises ConnectionError leaves the
\* result out while one that raises anything else is caught nowhere;
\* start += 4. An exception that is not caught ends the call with nothing
\* rendered. Every request is made without a timeout: one that is never
\* answered leaves the call blocked in it for good. (The half second the
\* handler sleeps after each iteration takes time and changes nothing.)
pick_batch ==
    /\ pc = "loop"
    /\ start < next_start
    /\ \E raises \in pick_format_raises(query) :
          IF raises
          THEN /\ pc' = "error"
               /\ UNCHANGED <<start, img_urls, upstream, chain>>
          ELSE /\ upstream' = Append(upstream, start)
               /\ chain' = IF linked THEN Append(chain, start) ELSE chain
               /\ \/ /\ pc' \in {"error", "blocked"}
                     /\ UNCHANGED <<start, img_urls>>
                  \/ \E n \in 1..MaxAnswer :
                        \E reachable \in SUBSET (0..(n - 1)), stopped \in 0..(n - 1) :
                           /\ stopped \notin reachable
                           /\ img_urls' = img_urls \o pick_fetched(start, n, reachable, stopped)
                           /\ pc' \in {"error", "blocked"}
                           /\ UNCHANGED start
                  \/ \E n \in 0..MaxAnswer :
                        \E reachable \in SUBSET (0..(n - 1)) :
                           /\ img_urls' = img_urls \o pick_fetched(start, n, reachable, n)
                           /\ start' = pick_advance(start)
                           /\ UNCHANGED pc
    /\ UNCHANGED <<query, arg, next_start, prev_start, tmpl_next, linked>>

\* The characters of a unicode string that are not ASCII, among those a
\* query holds in the model. (The bytes of a byte string are none of them.)
NonAscii == {"U+00E9"}

\* urllib.urlencode ({'query': query}) raises: it turns the query into a
\* byte string with str ( ), which raises UnicodeEncodeError for a unicode
\* string with a character that is not ASCII.
pick_urlencode_raises(q) == \E i \in 1..Len(q) : q[i] \in NonAscii

\* The loop is left: the next link is settled, the query is encoded for
\* the links of the page, which may raise, and the template is rendered.
\* The exception is caught nowhere: the call ends with nothing rendered.
pick_render ==
    /\ pc = "loop"
    /\ ~(start < next_start)
    /\ IF pick_urlencode_raises(query)
       THEN /\ pc' = "error"
            /\ UNCHANGED tmpl_next
       ELSE /\ tmpl_next' = pick_render_next(next_start)
            /\ pc' = "done"
    /\ UNCHANGED <<query, arg, start, next_start, prev_start, img_urls, upstream,
                   linked, chain>>

\* The call is over, with its page or with its exception, and what it held
\* is gone.
pick_return ==
    /\ pc \in {"done", "error"}
    /\ pc' = "idle"
    /\ query' = <<"c">>
    /\ arg' = 0
    /\ start' = 0
    /\ next_start' = 0
    /\ prev_start' = <<>>
    /\ img_urls' = <<>>
    /\ upstream' = <<>>
    /\ tmpl_next' = <<>>
    /\ linked' = FALSE
    /\ chain' = <<>>

\* A request /pick_image?query=q&start=s typed or linked from anywhere.
PickImage ==
    /\ pc = "idle"
    /\ \E q \in Queries, s \in 0..MaxStart : pick_begin(q, s, s = 0, <<>>)
    /\ UNCHANGED vaultVars

\* The user follows the "next" link of the rendered page.
FollowNext ==
    /\ pc = "done"
    /\ tmpl_next # <<>>
    /\ pick_begin(query, tmpl_next[1], linked, chain)
    /\ UNCHANGED vaultVars

PickBatch == pick_batch /\ UNCHANGED vaultVars

PickRender == pick_render /\ UNCHANGED vaultVars

PickReturn == pick_return /\ UNCHANGED vaultVars

NextPick == PickImage \/ FollowNext \/ PickBatch \/ PickRender \/ PickReturn

SpecPick == Init /\ [][NextPick]_vars

\* The request /pick_image?query=q, with which a chain of pages begins:
\* start is 0.
PickFirst ==
    /\ pc = "idle"
    /\ \E q \in Queries : pick_begin(q, 0, TRUE, <<>>)
    /\ UNCHANGED vaultVars

\* The chains of calls from start = 0 along the next links.
NextChain == PickFirst \/ FollowNext \/ PickBatch \/ PickRender \/ PickReturn

SpecChain == Init /\ [][NextChain]_vars

\* A handler that has started is given its turn: its next step is taken
\* when it can be. Nothing is assumed of the requests it makes: being left
\* without an answer is one of the ways an iteration can go.
FairChain == SpecChain /\ WF_vars(PickBatch) /\ WF_vars(PickRender)

(***************************************************************************)
(* Properties                                                              *)
(***************************************************************************)

\* A parameter counts as provided when the handler sees it as true: it is
\* present in the request and not empty.
IsUpdate(r) == r.op = "update"

IsDelete(r) == IsUpdate(r) /\ Truthy(r.delete)

IsUpsert(r) == IsUpdate(r) /\ ~Truthy(r.delete) /\ Truthy(r.name)

\* The store holds exactly one row named n, and it carries domain and image.
HoldsExactly(s, n, domain, image) ==
    \E r \in s : /\ RowsNamed(s, n) = {r}
                 /\ r.domain = domain
                 /\ r.image = image

\* Worker w takes this step.
Step(w) == wpc'[w] # wpc[w]

\* The step ends the handler worker w is in.
Ends(w) == wpc[w] # "return" /\ wpc'[w] = "return"

\* The call to copy_to_clipboard worker w makes in this step.
Copy(w) == wcalls'[w][Len(wcalls'[w])]

\* C1: after any sequence of update requests, handled one at a time, the
\* store holds at most one record for each name.
C1_UniqueNames == \A r \in store, q \in store : r.name = q.name => r = q

\* An upsert of a name that was already stored has run, next to another key.
C1_Witness ==
    \E w \in Workers : /\ wpc[w] = "return"
                       /\ wpath[w] = "upsert-found"
                       /\ Cardinality(store) = 2

\* The record worker w found or inserted is in store s (no delete request
\* has removed it since).
Kept(s, w) == \E r \in s : r.id = wk[w]

\* C2: when update (name, domain, image) with a name and no delete has
\* made its last write and ends in the redirect, the store holds exactly one
\* record of that name and it carries the domain and the image of this
\* request, whether the name was stored before or not (unless a delete
\* request has removed the record in the meantime).
C2_UpsertLatest ==
    [][\A w \in Workers :
          (/\ IsUpsert(wreq[w])
           /\ Ends(w)
           /\ wresp'[w].kind = "redirect"
           /\ Kept(store', w)) =>
              HoldsExactly(store', wreq[w].name, wreq[w].domain, wreq[w].image)]_vars

\* C3: update with a delete name never ends in an error. With no record of
\* that name (the empty store included) it ends in the redirect and leaves
\* the store as it was. With one, it removes the record it found and no
\* other (nothing, when another request has removed that record by then),
\* and when that was the one record of the name, as it is in a store that
\* keeps names unique, no record of the name is left: the same delete again
\* finds nothing and, by the first part, changes nothing.
C3_DeleteIdempotent ==
    [][\A w \in Workers :
          (IsDelete(wreq[w]) /\ Step(w)) =>
              /\ wresp'[w].kind # "error"
              /\ (wpc[w] = "delete_byName" /\ ~Found(store, wreq[w].delete)) =>
                    /\ store' = store
                    /\ wresp'[w].kind = "redirect"
              /\ (wpc[w] = "delete_byName" /\ Found(store, wreq[w].delete)) =>
                    /\ store' = store
                    /\ wpc'[w] = "delete"
                    /\ \E r \in RowsNamed(store, wreq[w].delete) : wk'[w] = r.id
              /\ wpc[w] = "delete" =>
                    /\ store' = {r \in store : r.id # wk[w]}
                    /\ \A r \in store \ store' : r.name = wreq[w].delete
                    /\ wresp'[w].kind = "redirect"
                    /\ (\A r \in RowsNamed(store, wreq[w].delete) : r.id = wk[w]) =>
                          ~Found(store', wreq[w].delete)]_vars

\* A delete has removed the record of its name and left the other record,
\* and the same delete made again by the other worker has found nothing:
\* both end in the redirect.
C3_Witness ==
    \E w \in Workers, v \in Workers :
        /\ IsDelete(wreq[w])
        /\ wreq[v] = wreq[w]
        /\ wpc[w] = "return"
        /\ wpc[v] = "return"
        /\ wpath[w] = "delete-found"
        /\ wpath[v] = "delete-notfound"
        /\ wresp[w].kind = "redirect"
        /\ wresp[v].kind = "redirect"
        /\ ~Found(store, wreq[w].delete)
        /\ store # {}

\* C4: update takes exactly one branch. With a delete name it only removes
\* records of that name and stores nothing, whatever name, domain and image
\* say; else with a name it stores or overwrites a record of that name,
\* removes none and touches no record of another name; with neither it
\* leaves the store as it was.
C4_OneBranch ==
    [][\A w \in Workers :
          (IsUpdate(wreq[w]) /\ Step(w)) =>
              IF Truthy(wreq[w].delete)
              THEN /\ store' \subseteq store
                   /\ \A r \in store \ store' : r.name = wreq[w].delete
                   /\ wpath'[w] \in {"", "delete-found", "delete-notfound"}
              ELSE IF Truthy(wreq[w].name)
              THEN /\ \A r \in store : \E q \in store' : q.id = r.id
                   /\ \A r \in store : r.name # wreq[w].name => r \in store'
                   /\ \A q \in store' \ store : q.name = wreq[w].name
                   /\ wpath'[w] \in {"", "upsert-found", "upsert-new"}
              ELSE /\ store' = store
                   /\ wpath'[w] = ""]_vars

\* A request with both a delete name and another name has deleted the one
\* and not stored the other.
C4_Witness ==
    \E w \in Workers :
        /\ IsDelete(wreq[w])
        /\ Truthy(wreq[w].name)
        /\ wreq[w].name # wreq[w].delete
        /\ wpc[w] = "return"
        /\ wpath[w] = "delete-found"
        /\ ~Found(store, wreq[w].name)
        /\ ~Found(store, wreq[w].delete)

\* C5: generate copies the generated password to the clipboard and renders
\* the listing with the message "Password ready" when that copy succeeded
\* and with the generated password itself when it failed.
C5_Message ==
    \A w \in Workers :
        (wpc[w] = "return" /\ wreq[w].op = "generate" /\ wreq[w].domain # None) =>
            /\ wresp[w].kind = "page"
            /\ Len(wcalls[w]) = 1
            /\ wcalls[w][1].text = pwd_gen(wreq[w].domain)
            /\ wresp[w].msg = IF wcalls[w][1].ok THEN "Password ready"
                              ELSE pwd_gen(wreq[w].domain)

\* A generate whose copy failed has shown the password.
C5_Witness ==
    \E w \in Workers :
        /\ wpc[w] = "return"
        /\ wreq[w].op = "generate"
        /\ Len(wcalls[w]) = 1
        /\ ~wcalls[w][1].ok
        /\ wresp[w].msg = pwd_gen(wreq[w].domain)

\* What C6 says of the requests that do not clear the clipboard: a listing
\* request with a message and a generate request never copy the placeholder;
\* the copy made by a generate, when it succeeds, leaves the generated
\* password on the clipboard; and no step but a copy changes the clipboard.
C6_Frame(w) ==
    /\ (wreq'[w].op = "index" /\ wreq'[w].msg = None /\ wpc[w] = "idle") =>
          wpc'[w] = "index_copy"
    /\ (wreq'[w].op = "index" /\ wreq'[w].msg # None) => wpc'[w] # "index_copy"
    /\ wreq'[w].op = "generate" => wpc'[w] # "index_copy"
    /\ (wpc[w] = "generate_copy" /\ Copy(w).ok) =>
          clipboard' = pwd_gen(wreq[w].domain)
    /\ wpc[w] \notin {"index_copy", "generate_copy"} => clipboard' = clipboard

\* C6 as claimed: a listing request with no message leaves the placeholder
\* on the clipboard, one with a message leaves the clipboard as it was; a
\* generate whose copy succeeded leaves the generated password there, and no
\* request but a listing without message or a generate changes it.
C6_Original ==
    [][\A w \in Workers :
          Step(w) => /\ C6_Frame(w)
                     /\ wpc[w] = "index_copy" => clipboard' = "***"]_vars

\* C6: a listing request with no message copies the placeholder to the
\* clipboard, which holds it afterwards whenever that copy succeeds; one
\* with a message leaves the clipboard as it was; a generate whose copy
\* succeeded leaves the generated password there, and no request but a
\* listing without message or a generate changes the clipboard.
C6_ClipboardCleared ==
    [][\A w \in Workers :
          Step(w) => /\ C6_Frame(w)
                     /\ wpc[w] = "index_copy" =>
                           /\ Copy(w).text = "***"
                           /\ clipboard' = IF Copy(w).ok THEN "***" ELSE clipboard]_vars

\* A listing without message has made its one copy, of the placeholder, and
\* the copy succeeded: the clipboard holds the placeholder.
C6_Witness ==
    \E w \in Workers :
        /\ wreq[w].op = "index"
        /\ wreq[w].msg = None
        /\ wpc[w] = "index_select"
        /\ wcalls[w] = <<[text |-> "***", ok |-> TRUE]>>
        /\ clipboard = "***"

\* C7: the listing holds every stored record exactly once, in ascending
\* order of name, and no step of a listing changes the store.
C7_ListingSorted ==
    [][\A w \in Workers :
          (wreq[w].op \in {"index", "generate"} /\ Step(w)) =>
              /\ store' = store
              /\ wpc[w] = "index_select" =>
                    LET keys == wresp'[w].keys
                    IN  /\ wresp'[w].kind = "page"
                        /\ Len(keys) = Cardinality(store)
                        /\ {keys[i] : i \in 1..Len(keys)} = store
                        /\ \A i \in 1..Len(keys), j \in 1..Len(keys) :
                              i < j => NameRank(keys[i].name) <= NameRank(keys[j].name)]_vars

\* A listing of two records whose order by name is not their order by id.
C7_Witness ==
    \E w \in Workers :
        /\ wreq[w].op = "index"
        /\ wpc[w] = "return"
        /\ Len(wresp[w].keys) = 2
        /\ wresp[w].keys[1].name # wresp[w].keys[2].name
        /\ wresp[w].keys[1].id > wresp[w].keys[2].id

\* C8: for every start >= 0 the rendered next offset is None exactly when
\* start + 8, clamped to 56, is 56; otherwise it is start + 8; it is never
\* greater than 56.
C8_NextOffset ==
    (pc = "done" /\ arg >= 0) =>
        LET clamped == IF arg + 8 > 56 THEN 56 ELSE arg + 8
        IN  /\ (tmpl_next = <<>>) <=> (clamped = 56)
            /\ (tmpl_next # <<>> => tmpl_next = <<arg + 8>>)
            /\ \A i \in 1..Len(tmpl_next) : tmpl_next[i] <= 56

\* The call at start = 48 has rendered its page with the next link disabled.
C8_Witness == pc = "done" /\ arg = 48 /\ tmpl_next = <<>>

\* The offsets the chain of calls from start = 0 along the next links
\* requests: the i-th image-search request of the chain is at offset
\* 4 * (i - 1), a multiple of 4 and at most 52, so that the chain covers at
\* most the 56 results from offset 0 on, at the four results
\* the loop counts for each request.
C9_Offsets ==
    /\ \A i \in 1..Len(chain) :
          /\ chain[i] = 4 * (i - 1)
          /\ chain[i] % 4 = 0
          /\ chain[i] <= 52
    /\ 4 * Len(chain) <= 56

\* C9 as it is claimed: along the chain the offsets are as above, every
\* call that is over has made exactly the two requests at start and
\* start + 4, and the batch loop of every call ends.
C9_Original ==
    /\ [](linked => /\ C9_Offsets
                    /\ (pc \in {"done", "error"} => upstream = <<arg, arg + 4>>))
    /\ ((pc = "loop") ~> (pc \in {"done", "error"}))

\* What holds of a call of the chain: the offsets are as above, it makes at
\* most two requests, the first at start and the second at start + 4, and
\* once it has rendered its page it has made exactly these two.
C9_ChainSafe ==
    linked =>
        /\ C9_Offsets
        /\ Len(upstream) <= 2
        /\ \A i \in 1..Len(upstream) : upstream[i] = arg + 4 * (i - 1)
        /\ (pc = "done" => upstream = <<arg, arg + 4>>)

\* C9: the chain of calls from start = 0 along the next links requests only
\* offsets that are multiples of 4 and at most 52, covering no more than 56
\* results at four a request; a call makes at most two requests, and
\* exactly the two at start and start + 4 when it renders its page; and the
\* batch loop of every call is left, for the rendered page or by an
\* exception, unless a request of it is never answered and the call stays
\* blocked in it.
C9_Chain ==
    /\ []C9_ChainSafe
    /\ ((pc = "loop") ~> (pc \in {"done", "error", "blocked"}))

\* The chain from start = 0 has reached the page whose next link is disabled.
C9_Witness ==
    /\ linked
    /\ pc = "done"
    /\ arg = 48
    /\ tmpl_next = <<>>
    /\ Len(chain) = 14

\* C10: when two workers upsert the same name at the same time, neither
\* request ends in an error, and when the last write of the two is made the
\* store holds exactly one record of that name, carrying the domain and the
\* image of the request that makes it (unless a delete request has removed
\* the record in the meantime).
C10_LastWriteWins ==
    [][\A w \in Workers :
          /\ (IsUpsert(wreq[w]) /\ Step(w)) => wresp'[w].kind # "error"
          /\ (/\ wpc[w] = "set_image"
              /\ Step(w)
              /\ \A v \in Workers \ {w} : /\ wpc[v] = "return"
                                          /\ IsUpsert(wreq[v])
                                          /\ wreq[v].name = wreq[w].name
              /\ Kept(store', w)) =>
                HoldsExactly(store', wreq[w].name, wreq[w].domain, wreq[w].image)]_vars

====
